---------------------------- MODULE Spec2Model ----------------------------
(***************************************************************************)
(* A model of src/PIL/PpmImagePlugin.py: the PBM/PGM/PPM header reader     *)
(* (PpmImageFile) and the plain-text pixel decoder (PpmPlainDecoder).      *)
(*                                                                         *)
(* Bytes are their integer codes, byte strings are sequences of bytes.     *)
(* Python indices are kept 0-based: byte i of block is block[i + 1].       *)
(***************************************************************************)
EXTENDS Integers, Sequences, FiniteSets, TLC

VARIABLES
    fp,             \* the file: every byte of the stream (self.fp / self.fd)
    pos,            \* the file position (fp.tell())
    pc,             \* where the program is: see the actions
    err,            \* the exception raised, "none" while there is none
    magic_number,   \* _open: magic_number
    mode,           \* _open: mode, the base mode MODES gives
    im_mode,        \* _open: self.mode, later the decoder's self.mode
    rawmode,        \* _open: rawmode, later the decoder's self.args[0]
    ix,             \* _open: the loop index of the header tokens
    token,          \* _open: the last token _read_token returned
    xsize,          \* _open: xsize, later self.state.xsize
    ysize,          \* _open: ysize, later self.state.ysize
    maxval,         \* _open: maxval, the header's maximum value
    tile,           \* _open: self.tile
    decoded_data,   \* decoder: decoded_data
    comment_spans,  \* decoder: comment_spans
    half_token,     \* decoder: half_token (False is the empty sequence)
    block,          \* decoder: block, as the last round left it
    sink            \* decode: what set_as_raw received, <<>> before it

vars == <<fp, pos, pc, err, magic_number, mode, im_mode, rawmode, ix, token,
          xsize, ysize, maxval, tile, decoded_data, comment_spans,
          half_token, block, sink>>

hdrVars == <<magic_number, mode, im_mode, rawmode, ix, token, xsize, ysize,
             maxval, tile>>

decVars == <<decoded_data, comment_spans, half_token, block, sink>>

---------------------------------------------------------------------------
(* Bounds of the model. *)

\* longest header body (the bytes after the magic) drawn freely
MaxHdrLen == 5
\* most pieces of a header body built from long tokens
MaxPieces == 4

---------------------------------------------------------------------------
(* Bytes and Python's builtins on byte strings. *)

b_whitespace == {32, 9, 10, 11, 12, 13}

\* b"#"
HASH == 35
\* b"\n"
LF == 10
\* b"\r"
CR == 13
\* b" "
SP == 32

Digits == 48..57


\* the sequence s repeated n times
RECURSIVE Repeat(_, _)
Repeat(s, n) == IF n = 0 THEN <<>> ELSE s \o Repeat(s, n - 1)

\* every sequence over S of length at most n
SeqsUpTo(S, n) == UNION {[1..k -> S] : k \in 0..n}

\* block[a:b] for 0 <= a
Slice(blk, a, b) == SubSeq(blk, a + 1, IF b > Len(blk) THEN Len(blk) ELSE b)

\* block[a:]
SliceFrom(blk, a) == SubSeq(blk, a + 1, Len(blk))

\* bytes.find(byte, start): the lowest index >= start holding byte, or -1
RECURSIVE find(_, _, _)
find(blk, byte, start) ==
    IF start >= Len(blk) THEN -1
    ELSE IF blk[start + 1] = byte THEN start
    ELSE find(blk, byte, start + 1)

\* bytes.split(): the maximal runs of non-whitespace bytes, in order
RECURSIVE splitFrom(_, _, _)
splitFrom(blk, i, cur) ==
    IF i > Len(blk)
    THEN IF cur = <<>> THEN <<>> ELSE <<cur>>
    ELSE IF blk[i] \in b_whitespace
         THEN IF cur = <<>> THEN splitFrom(blk, i + 1, <<>>)
              ELSE <<cur>> \o splitFrom(blk, i + 1, <<>>)
         ELSE splitFrom(blk, i + 1, Append(cur, blk[i]))

split(blk) == splitFrom(blk, 1, <<>>)

\* b"".join(tokens)
RECURSIVE join(_)
join(tokens) == IF tokens = <<>> THEN <<>> ELSE Head(tokens) \o join(Tail(tokens))

\* block[-1:].isspace()
last_isspace(blk) == blk # <<>> /\ blk[Len(blk)] \in b_whitespace

\* int(token) succeeds: the token is a run of decimal digits.  (Python also
\* takes a sign and underscores between digits; the streams of this model
\* hold neither.)
int_ok(tok) == tok # <<>> /\ \A i \in 1..Len(tok) : tok[i] \in Digits

(* Python's integers are unbounded and a ten-digit token exceeds the      *)
(* integers TLC computes with, so an integer read from a token is the pair *)
(* <<hi, lo>> of value hi * 65536 + lo, with 0 <= lo < 65536.              *)

\* the radix of the pairs
RADIX == 2 ^ 16

\* the pair of a small natural number
Big(n) == <<n \div RADIX, n % RADIX>>

\* the small natural number of a pair, for pairs below 2^31
Small(v) == v[1] * RADIX + v[2]

\* a > b
BigGT(a, b) == a[1] > b[1] \/ (a[1] = b[1] /\ a[2] > b[2])

\* a < b
BigLT(a, b) == BigGT(b, a)

\* 2 ** k - 1, for 1 <= k <= 31
Pow2Minus1(k) == IF k <= 16 THEN <<0, 2 ^ k - 1>> ELSE <<2 ^ (k - 16) - 1, RADIX - 1>>

\* int(token) for a run of decimal digits
RECURSIVE int(_)
int(tok) ==
    IF tok = <<>> THEN <<0, 0>>
    ELSE LET v == int(SubSeq(tok, 1, Len(tok) - 1))
             t == v[2] * 10 + (tok[Len(tok)] - 48)
         IN  <<v[1] * 10 + t \div RADIX, t % RADIX>>

\* ("%d" % n).encode("ascii") for a small n >= 0
RECURSIVE ToDec(_)
ToDec(n) == IF n < 10 THEN <<48 + n>> ELSE Append(ToDec(n \div 10), 48 + (n % 10))

\* value.to_bytes(n, "big") for n in {1, 2, 4} and 0 <= value < 256^n
to_bytes(value, n) ==
    SubSeq(<<(value[1] \div 256) % 256, value[1] % 256,
             value[2] \div 256, value[2] % 256>>, 5 - n, 4)

---------------------------------------------------------------------------
(* PpmImageFile: the header. *)

P1 == <<80, 49>>
P2 == <<80, 50>>
P3 == <<80, 51>>
P4 == <<80, 52>>
P5 == <<80, 53>>
P6 == <<80, 54>>
P0CMYK == <<80, 48, 67, 77, 89, 75>>
PyP == <<80, 121, 80>>
PyRGBA == <<80, 121, 82, 71, 66, 65>>
PyCMYK == <<80, 121, 67, 77, 89, 75>>

MODES ==
    (P1 :> "1") @@ (P2 :> "L") @@ (P3 :> "RGB") @@ (P4 :> "1") @@ (P5 :> "L")
    @@ (P6 :> "RGB") @@ (P0CMYK :> "CMYK") @@ (PyP :> "P")
    @@ (PyRGBA :> "RGBA") @@ (PyCMYK :> "CMYK")

\* _read_magic: up to six bytes, ended by whitespace (consumed) or end of file
RECURSIVE read_magic_loop(_, _, _, _)
read_magic_loop(f, p, magic, n) ==
    IF n = 0 \/ p >= Len(f) THEN [magic |-> magic, pos |-> p]
    ELSE IF f[p + 1] \in b_whitespace THEN [magic |-> magic, pos |-> p + 1]
    ELSE read_magic_loop(f, p + 1, Append(magic, f[p + 1]), n - 1)

_read_magic(f, p) == read_magic_loop(f, p, <<>>, 6)

\* the comment loop of _read_token: read bytes until one is CR or LF, or
\* the read returns nothing; gives the position after the last byte read
RECURSIVE skip_comment(_, _)
skip_comment(f, p) ==
    IF p >= Len(f) THEN p
    ELSE IF f[p + 1] \in {CR, LF} THEN p + 1
    ELSE skip_comment(f, p + 1)

\* the longest token _read_token returns
TOKEN_LIMIT == 10

\* read_token_loop with "while len(token) < 10"
RECURSIVE read_token_loop_short(_, _, _)
read_token_loop_short(f, p, tok) ==
    IF ~(Len(tok) < TOKEN_LIMIT) THEN [token |-> tok, pos |-> p]
    ELSE IF p >= Len(f) THEN [token |-> tok, pos |-> p]
    ELSE LET c == f[p + 1] IN
         IF c \in b_whitespace
         THEN IF tok = <<>> THEN read_token_loop_short(f, p + 1, tok)
              ELSE [token |-> tok, pos |-> p + 1]
         ELSE IF c = HASH THEN read_token_loop_short(f, skip_comment(f, p + 1), tok)
         ELSE read_token_loop_short(f, p + 1, Append(tok, c))

\* read_token_loop leaving the whitespace byte that ends a token unread
RECURSIVE read_token_loop_unread(_, _, _)
read_token_loop_unread(f, p, tok) ==
    IF ~(Len(tok) <= TOKEN_LIMIT) THEN [token |-> tok, pos |-> p]
    ELSE IF p >= Len(f) THEN [token |-> tok, pos |-> p]
    ELSE LET c == f[p + 1] IN
         IF c \in b_whitespace
         THEN IF tok = <<>> THEN read_token_loop_unread(f, p + 1, tok)
              ELSE [token |-> tok, pos |-> p]
         ELSE IF c = HASH THEN read_token_loop_unread(f, skip_comment(f, p + 1), tok)
         ELSE read_token_loop_unread(f, p + 1, Append(tok, c))

\* the while loop of _read_token
RECURSIVE read_token_loop(_, _, _)
read_token_loop(f, p, tok) ==
    IF ~(Len(tok) <= TOKEN_LIMIT) THEN [token |-> tok, pos |-> p]
    ELSE IF p >= Len(f) THEN [token |-> tok, pos |-> p]
    ELSE LET c == f[p + 1] IN
         IF c \in b_whitespace
         THEN IF tok = <<>> THEN read_token_loop(f, p + 1, tok)
              ELSE [token |-> tok, pos |-> p + 1]
         ELSE IF c = HASH THEN read_token_loop(f, skip_comment(f, p + 1), tok)
         ELSE read_token_loop(f, p + 1, Append(tok, c))

\* _read_token without "if not token: raise"
_read_token_noeof(f, p) ==
    LET r == read_token_loop(f, p, <<>>) IN
    [token |-> r.token,
     pos   |-> r.pos,
     err   |-> IF Len(r.token) > TOKEN_LIMIT THEN "Token too long in file header"
               ELSE "none"]

\* _read_token: the token, the position it leaves the file at, the error
_read_token(f, p) ==
    LET r == read_token_loop(f, p, <<>>) IN
    [token |-> r.token,
     pos   |-> r.pos,
     err   |-> IF r.token = <<>> THEN "Reached EOF while reading header"
               ELSE IF Len(r.token) > TOKEN_LIMIT THEN "Token too long in file header"
               ELSE "none"]

\* resolve_maxval with "maxval <= 2**16" for the 16-bit samples
resolve_maxval_le(md, mv) ==
    IF BigGT(mv, Big(255))
    THEN IF md # "L"
         THEN [mode |-> md, rawmode |-> md, err |-> "Too many colors for band"]
         ELSE IF ~BigGT(mv, Big(2 ^ 16))
              THEN [mode |-> "I", rawmode |-> "I;16B", err |-> "none"]
              ELSE [mode |-> "I", rawmode |-> "I;32B", err |-> "none"]
    ELSE [mode |-> md, rawmode |-> md, err |-> "none"]

\* _open, ix == 2: the modes the maximum value resolves to, or the error
resolve_maxval(md, mv) ==
    IF BigGT(mv, Big(255))
    THEN IF md # "L"
         THEN [mode |-> md, rawmode |-> md, err |-> "Too many colors for band"]
         ELSE IF BigLT(mv, Big(2 ^ 16))
              THEN [mode |-> "I", rawmode |-> "I;16B", err |-> "none"]
              ELSE [mode |-> "I", rawmode |-> "I;32B", err |-> "none"]
    ELSE [mode |-> md, rawmode |-> md, err |-> "none"]

\* _open: read the magic number and look it up in MODES
ReadMagic ==
    /\ pc = "magic"
    /\ LET r == _read_magic(fp, pos) IN
       /\ magic_number' = r.magic
       /\ pos' = r.pos
       /\ IF r.magic \in DOMAIN MODES
          THEN /\ mode' = MODES[r.magic]
               /\ pc' = "token"
               /\ err' = err
          ELSE /\ mode' = mode
               /\ pc' = "error"
               /\ err' = "not a PPM file"
    /\ UNCHANGED <<fp, im_mode, rawmode, ix, token, xsize, ysize, maxval, tile>>
    /\ UNCHANGED decVars

\* _open: one round of "for ix in range(3)"
ReadToken ==
    /\ pc = "token"
    /\ LET r == _read_token(fp, pos) IN
       /\ pos' = r.pos
       /\ IF r.err # "none"
          THEN /\ err' = r.err
               /\ pc' = "error"
               /\ UNCHANGED <<token, xsize, ysize, maxval, im_mode, rawmode, ix>>
          ELSE /\ token' = r.token
               /\ IF ~int_ok(r.token)
                  THEN /\ err' = "invalid literal for int()"
                       /\ pc' = "error"
                       /\ UNCHANGED <<xsize, ysize, maxval, im_mode, rawmode, ix>>
                  ELSE LET v == int(r.token) IN
                       CASE ix = 0 ->
                              /\ xsize' = v
                              /\ ix' = 1
                              /\ pc' = "token"
                              /\ UNCHANGED <<err, ysize, maxval, im_mode, rawmode>>
                         [] ix = 1 ->
                              /\ ysize' = v
                              /\ im_mode' = mode
                              /\ rawmode' = IF mode = "1" THEN "1;I" ELSE mode
                              /\ ix' = IF mode = "1" THEN 1 ELSE 2
                              /\ pc' = IF mode = "1" THEN "tile" ELSE "token"
                              /\ UNCHANGED <<err, xsize, maxval>>
                         [] ix = 2 ->
                              LET m == resolve_maxval(mode, v) IN
                              /\ maxval' = v
                              /\ im_mode' = IF m.err = "none" THEN m.mode ELSE im_mode
                              /\ rawmode' = IF m.err = "none" THEN m.rawmode ELSE rawmode
                              /\ err' = m.err
                              /\ pc' = IF m.err = "none" THEN "tile" ELSE "error"
                              /\ UNCHANGED <<xsize, ysize, ix>>
    /\ UNCHANGED <<fp, magic_number, mode, tile>>
    /\ UNCHANGED decVars

\* _open: the decoder's name, self._size and self.tile
MakeTile ==
    /\ pc = "tile"
    /\ tile' = [decoder_name |-> IF magic_number \in {P1, P2, P3}
                                 THEN "ppm_plain" ELSE "raw",
                extents |-> <<0, 0, xsize, ysize>>,
                offset |-> pos,
                rawmode |-> rawmode]
    /\ pc' = "opened"
    /\ UNCHANGED <<fp, pos, err, magic_number, mode, im_mode, rawmode, ix,
                   token, xsize, ysize, maxval>>
    /\ UNCHANGED decVars

---------------------------------------------------------------------------
(* The headers opened. *)

\* the bytes of the freely drawn header bodies
HdrAlphabet == {49, 120, SP, LF, HASH}

\* ten digits: a token of the greatest length _read_token accepts
TenDigits == Repeat(<<49>>, TOKEN_LIMIT)

\* the pieces the long-token header bodies are built from
HdrPieces == {TenDigits, <<49>>, <<SP>>, <<HASH>>, <<LF>>}

\* the maximum values tried, on both sides of every threshold of _open
MaxValTokens ==
    {ToDec(n) : n \in {0, 1, 254, 255, 256, 257, 65534, 65535, 65536, 65537}}
    \cup {<<50, 49, 52, 55, 52, 56, 51, 54, 52, 56>>}

a_magic == <<80, 55>>

\* a header as a writer lays it out: magic, sizes, maximum value
HeaderBytes(magic, x, y, mv) ==
    magic \o <<LF>> \o ToDec(x) \o <<SP>> \o ToDec(y) \o <<LF>> \o mv \o <<LF>>

HeaderStreams ==
    {m \o <<LF>> \o b : m \in {P1, P2}, b \in SeqsUpTo(HdrAlphabet, MaxHdrLen)}
    \cup {P2 \o <<LF>> \o join(ps) : ps \in SeqsUpTo(HdrPieces, MaxPieces)}
    \cup {HeaderBytes(m, 1, 1, mv) : m \in DOMAIN MODES \cup {a_magic, <<>>}, mv \in MaxValTokens}

NoTile == [decoder_name |-> "", extents |-> <<0, 0, Big(0), Big(0)>>, offset |-> 0, rawmode |-> ""]

InitOpen ==
    /\ fp \in HeaderStreams
    /\ pos = 0
    /\ pc = "magic"
    /\ err = "none"
    /\ magic_number = <<>>
    /\ mode = ""
    /\ im_mode = ""
    /\ rawmode = ""
    /\ ix = 0
    /\ token = <<>>
    /\ xsize = Big(0)
    /\ ysize = Big(0)
    /\ maxval = Big(0)
    /\ tile = NoTile
    /\ decoded_data = <<>>
    /\ comment_spans = FALSE
    /\ half_token = <<>>
    /\ block = <<>>
    /\ sink = <<>>

NextOpen == ReadMagic \/ ReadToken \/ MakeTile

SpecOpen == InitOpen /\ [][NextOpen]_vars

---------------------------------------------------------------------------
(* PpmPlainDecoder: the plain-text pixel data. *)

Min(a, b) == IF a < b THEN a ELSE b
Max(a, b) == IF a > b THEN a ELSE b

\* _find_comment_end
_find_comment_end(blk, start) ==
    LET a == find(blk, LF, start)
        b == find(blk, CR, start)
    IN  IF a * b > 0 THEN Min(a, b) ELSE Max(a, b)

\* _ignore_comments that deletes nothing
_ignore_comments_keep(blk) == [block |-> blk, comment_spans |-> FALSE]

\* _ignore_comments: the block without its comments, and whether the last
\* comment runs past the end of the block
RECURSIVE _ignore_comments(_)
_ignore_comments(blk) ==
    LET comment_start == find(blk, HASH, 0) IN
    IF comment_start = -1
    THEN [block |-> blk, comment_spans |-> FALSE]
    ELSE LET comment_end == _find_comment_end(blk, comment_start) IN
         IF comment_end # -1
         THEN _ignore_comments(Slice(blk, 0, comment_start)
                               \o SliceFrom(blk, comment_end + 1))
         ELSE [block |-> Slice(blk, 0, comment_start), comment_spans |-> TRUE]

\* decode: the decoder and its arguments for self.mode and the raw mode
Plan(md, rm) ==
    CASE md = "1" -> [bitonal |-> TRUE, channels |-> 1, depth |-> 8]
      [] md = "L" -> [bitonal |-> FALSE, channels |-> 1, depth |-> 8]
      [] md = "I" /\ rm = "I;16B" -> [bitonal |-> FALSE, channels |-> 1, depth |-> 16]
      [] md = "I" /\ rm = "I;32B" -> [bitonal |-> FALSE, channels |-> 1, depth |-> 32]
      [] md = "RGB" -> [bitonal |-> FALSE, channels |-> 3, depth |-> 8]

\* _decode_blocks: max_len
max_len == 10

\* _decode_blocks: maxval, the greatest sample of the depth
depth_maxval(depth) == Pow2Minus1(IF depth = 32 THEN 31 ELSE depth)

\* _decode_blocks: bytes_per_sample
bytes_per_sample(depth) == depth \div 8

\* total_bytes of _decode_bitonal and of _decode_blocks
total_bytes_of(plan, xs, ys) ==
    IF plan.bitonal THEN Small(xs) * Small(ys)
    ELSE Small(xs) * Small(ys) * plan.channels * bytes_per_sample(plan.depth)

\* the condition of the while loop of both decoders
loop_continues(data, total) == Len(data) # total

\* emit_tokens without "if len(decoded_data) == total_bytes: break"
RECURSIVE emit_tokens_nobreak(_, _, _, _)
emit_tokens_nobreak(tokens, data, plan, total) ==
    IF tokens = <<>> THEN [decoded_data |-> data, err |-> "none"]
    ELSE LET tok == Head(tokens) IN
         IF Len(tok) > max_len
         THEN [decoded_data |-> data, err |-> "Token too long found in data"]
         ELSE IF ~int_ok(tok)
         THEN [decoded_data |-> data, err |-> "invalid literal for int()"]
         ELSE IF BigGT(int(tok), depth_maxval(plan.depth))
         THEN [decoded_data |-> data, err |-> "Channel value too large for this mode"]
         ELSE emit_tokens_nobreak(Tail(tokens),
                                  data \o to_bytes(int(tok), bytes_per_sample(plan.depth)),
                                  plan, total)

\* _decode_blocks: "for token in tokens", from the data decoded so far
RECURSIVE emit_tokens(_, _, _, _)
emit_tokens(tokens, data, plan, total) ==
    IF tokens = <<>> THEN [decoded_data |-> data, err |-> "none"]
    ELSE LET tok == Head(tokens) IN
         IF Len(tok) > max_len
         THEN [decoded_data |-> data, err |-> "Token too long found in data"]
         ELSE IF ~int_ok(tok)
         THEN [decoded_data |-> data, err |-> "invalid literal for int()"]
         ELSE IF BigGT(int(tok), depth_maxval(plan.depth))
         THEN [decoded_data |-> data, err |-> "Channel value too large for this mode"]
         ELSE LET more == data \o to_bytes(int(tok), bytes_per_sample(plan.depth)) IN
              IF Len(more) = total
              THEN [decoded_data |-> more, err |-> "none"]
              ELSE emit_tokens(Tail(tokens), more, plan, total)

\* blocks_round with the length of the half token checked only after the
\* tokens of the block were converted, and only while output is missing
blocks_round_latecheck(st, blk, plan, total) ==
    LET ic == _ignore_comments(blk)
        stitched == IF st.half_token # <<>> THEN st.half_token \o ic.block ELSE ic.block
        all == split(stitched)
        splits == stitched # <<>> /\ ~last_isspace(stitched)
        half == IF splits THEN all[Len(all)] ELSE st.half_token
        tokens == IF splits THEN SubSeq(all, 1, Len(all) - 1) ELSE all
        e == emit_tokens(tokens, st.decoded_data, plan, total)
        late == e.err = "none" /\ Len(e.decoded_data) # total
                /\ splits /\ Len(half) > max_len
    IN  [decoded_data |-> e.decoded_data, comment_spans |-> ic.comment_spans,
         half_token |-> half, block |-> stitched,
         pc |-> IF e.err = "none" /\ ~late THEN "loop" ELSE "error",
         err |-> IF late THEN "Token too long found in data" ELSE e.err]

\* blocks_round without "if len(half_token) > max_len: raise"
blocks_round_nocheck(st, blk, plan, total) ==
    LET ic == _ignore_comments(blk)
        stitched == IF st.half_token # <<>> THEN st.half_token \o ic.block ELSE ic.block
        all == split(stitched)
        splits == stitched # <<>> /\ ~last_isspace(stitched)
        half == IF splits THEN all[Len(all)] ELSE st.half_token
        tokens == IF splits THEN SubSeq(all, 1, Len(all) - 1) ELSE all
        e == emit_tokens(tokens, st.decoded_data, plan, total)
    IN  [decoded_data |-> e.decoded_data, comment_spans |-> ic.comment_spans,
         half_token |-> half, block |-> stitched,
         pc |-> IF e.err = "none" THEN "loop" ELSE "error",
         err |-> e.err]

\* _decode_blocks, from _ignore_comments to the end of the round, for the
\* block the comment loop left.  st holds decoded_data, comment_spans and
\* half_token.
blocks_round(st, blk, plan, total) ==
    LET ic == _ignore_comments(blk)
        stitched == IF st.half_token # <<>> THEN st.half_token \o ic.block ELSE ic.block
        all == split(stitched)
        splits == stitched # <<>> /\ ~last_isspace(stitched)
        half == IF splits THEN all[Len(all)] ELSE st.half_token
        tokens == IF splits THEN SubSeq(all, 1, Len(all) - 1) ELSE all
    IN  IF splits /\ Len(half) > max_len
        THEN [decoded_data |-> st.decoded_data, comment_spans |-> ic.comment_spans,
              half_token |-> half, block |-> stitched, pc |-> "error",
              err |-> "Token too long found in data"]
        ELSE LET e == emit_tokens(tokens, st.decoded_data, plan, total) IN
             [decoded_data |-> e.decoded_data, comment_spans |-> ic.comment_spans,
              half_token |-> half, block |-> stitched,
              pc |-> IF e.err = "none" THEN "loop" ELSE "error",
              err |-> e.err]

\* _decode_bitonal, from _ignore_comments to the end of the round
bitonal_round(st, blk, total) ==
    LET ic == _ignore_comments(blk)
        tokens == join(split(ic.block))
    IN  IF \E i \in 1..Len(tokens) : tokens[i] \notin {48, 49}
        THEN [decoded_data |-> st.decoded_data, comment_spans |-> ic.comment_spans,
              half_token |-> st.half_token, block |-> ic.block, pc |-> "error",
              err |-> "Invalid token for this mode"]
        ELSE [decoded_data |-> Slice(st.decoded_data \o tokens, 0, total),
              comment_spans |-> ic.comment_spans,
              half_token |-> st.half_token, block |-> ic.block,
              pc |-> "loop", err |-> "none"]

\* the rest of the round for the block the comment loop left
round(st, blk, plan, total) ==
    IF plan.bitonal THEN bitonal_round(st, blk, total)
    ELSE blocks_round(st, blk, plan, total)

\* "while block and comment_spans" of both decoders, entered with a block
\* just read: the tail of the open comment is deleted, or the comment spans
\* the whole block and the loop reads again (pc "skip")
comment_loop(st, blk, plan, total) ==
    IF blk # <<>> /\ st.comment_spans
    THEN LET comment_end == _find_comment_end(blk, 0) IN
         IF comment_end # -1
         THEN round([st EXCEPT !.comment_spans = IF plan.bitonal THEN FALSE ELSE @],
                    SliceFrom(blk, comment_end + 1), plan, total)
         ELSE [decoded_data |-> st.decoded_data, comment_spans |-> st.comment_spans,
               half_token |-> st.half_token, block |-> blk, pc |-> "skip",
               err |-> "none"]
    ELSE round(st, blk, plan, total)

\* loop_round without "if not block": an empty read is a block like another
loop_round_noeof(st, blk, plan, total) == comment_loop(st, blk, plan, total)

\* one round of the while loop of a decoder from the block it read first:
\* an empty block ends the loop (pc "return"), unless _decode_blocks holds a
\* half token and flushes it with a blank
loop_round(st, blk, plan, total) ==
    IF blk = <<>>
    THEN IF ~plan.bitonal /\ st.half_token # <<>>
         THEN comment_loop(st, <<SP>>, plan, total)
         ELSE [decoded_data |-> st.decoded_data, comment_spans |-> st.comment_spans,
               half_token |-> st.half_token, block |-> blk, pc |-> "return",
               err |-> "none"]
    ELSE comment_loop(st, blk, plan, total)

\* _decode_bitonal: bytes.maketrans(b"01", b"\xFF\x00") applied to the data
translate(data) ==
    [i \in 1..Len(data) |-> IF data[i] = 48 THEN 255
                            ELSE IF data[i] = 49 THEN 0 ELSE data[i]]

\* what the decoder returns to decode
returned(data, plan) == IF plan.bitonal THEN translate(data) ELSE data

plan == Plan(im_mode, rawmode)
total_bytes == total_bytes_of(plan, xsize, ysize)
locals == [decoded_data |-> decoded_data, comment_spans |-> comment_spans,
           half_token |-> half_token]

\* _read_block: the next n bytes of the file, none at its end
ReadSizes == IF pos >= Len(fp) THEN {0} ELSE 1..(Len(fp) - pos)

Store(r) ==
    \E v \in {r} :
        /\ decoded_data' = v.decoded_data
        /\ comment_spans' = v.comment_spans
        /\ half_token' = v.half_token
        /\ block' = v.block
        /\ pc' = v.pc
        /\ err' = v.err

\* a round of the while loop of _decode_bitonal or _decode_blocks, up to the
\* next read
ReadBlock ==
    /\ pc = "loop"
    /\ loop_continues(decoded_data, total_bytes)
    /\ \E n \in ReadSizes :
          /\ pos' = pos + n
          /\ Store(loop_round(locals, Slice(fp, pos, pos + n), plan, total_bytes))
    /\ UNCHANGED <<fp, sink>>
    /\ UNCHANGED hdrVars

\* the read inside "while block and comment_spans", and the round after it
SkipBlock ==
    /\ pc = "skip"
    /\ \E n \in ReadSizes :
          /\ pos' = pos + n
          /\ Store(comment_loop(locals, Slice(fp, pos, pos + n), plan, total_bytes))
    /\ UNCHANGED <<fp, sink>>
    /\ UNCHANGED hdrVars

\* decode: the decoder returned; set_as_raw takes the data
SetAsRaw ==
    /\ \/ pc = "return"
       \/ pc = "loop" /\ ~loop_continues(decoded_data, total_bytes)
    /\ sink' = returned(decoded_data, plan)
    /\ pc' = "done"
    /\ UNCHANGED <<fp, pos, err, decoded_data, comment_spans, half_token, block>>
    /\ UNCHANGED hdrVars

---------------------------------------------------------------------------
(* The images decoded: a header as _open leaves it, and pixel data. *)

\* longest pixel data drawn freely
MaxDataLen == 4
\* most pieces of pixel data built from long tokens
MaxDataPieces == 4

\* the bytes of the freely drawn pixel data of the numeric modes
NumAlphabet == {49, SP, LF, CR, HASH}
\* the bytes of the freely drawn bitonal pixel data
BitAlphabet == {48, 49, 50, LF, CR, HASH}
\* the pieces of the pixel data with long tokens
DataPieces == {TenDigits, <<49>>, <<SP>>}

Header(magic, x, y, mv) == [magic |-> magic, xsize |-> x, ysize |-> y, maxval |-> mv]

DecodeInputs ==
    ({Header(P2, 2, 1, 5), Header(P2, 2, 1, 255), Header(P2, 1, 1, 300),
      Header(P3, 1, 1, 255)}
       \X SeqsUpTo(NumAlphabet, MaxDataLen))
    \cup ({Header(P1, 2, 1, 0)} \X SeqsUpTo(BitAlphabet, MaxDataLen))
    \cup ({Header(P2, 1, 1, 65536), Header(P2, 2, 1, 65536)}
          \X {join(ps) : ps \in SeqsUpTo(DataPieces, MaxDataPieces)})

\* the header bytes of a header
BytesOf(h) ==
    IF MODES[h.magic] = "1"
    THEN h.magic \o <<LF>> \o ToDec(h.xsize) \o <<SP>> \o ToDec(h.ysize) \o <<LF>>
    ELSE HeaderBytes(h.magic, h.xsize, h.ysize, ToDec(h.maxval))

InitDecode ==
    \E in \in DecodeInputs :
       LET h == in[1]
           base == MODES[h.magic]
           m == resolve_maxval(base, Big(h.maxval))
       IN
       /\ fp = BytesOf(h) \o in[2]
       /\ pos = Len(BytesOf(h))
       /\ pc = "loop"
       /\ err = "none"
       /\ magic_number = h.magic
       /\ mode = base
       /\ im_mode = IF base = "1" THEN "1" ELSE m.mode
       /\ rawmode = IF base = "1" THEN "1;I" ELSE m.rawmode
       /\ ix = IF base = "1" THEN 1 ELSE 2
       /\ token = IF base = "1" THEN ToDec(h.ysize) ELSE ToDec(h.maxval)
       /\ xsize = Big(h.xsize)
       /\ ysize = Big(h.ysize)
       /\ maxval = Big(h.maxval)
       /\ tile = [decoder_name |-> "ppm_plain",
                  extents |-> <<0, 0, Big(h.xsize), Big(h.ysize)>>,
                  offset |-> Len(BytesOf(h)),
                  rawmode |-> IF base = "1" THEN "1;I" ELSE m.rawmode]
       /\ decoded_data = <<>>
       /\ comment_spans = FALSE
       /\ half_token = <<>>
       /\ block = <<>>
       /\ sink = <<>>

Next == ReadBlock \/ SkipBlock \/ SetAsRaw

Spec == InitDecode /\ [][Next]_vars

---------------------------------------------------------------------------
(* What the claims are stated with: the stream read without the decoder.   *)

\* the bytes of s outside its comments; a comment runs from "#" to the
\* next CR or LF, which belongs to it
RECURSIVE RefStripFrom(_, _, _)
RefStripFrom(s, i, inComment) ==
    IF i > Len(s) THEN <<>>
    ELSE IF inComment THEN RefStripFrom(s, i + 1, s[i] \notin {CR, LF})
    ELSE IF s[i] = HASH THEN RefStripFrom(s, i + 1, TRUE)
    ELSE <<s[i]>> \o RefStripFrom(s, i + 1, FALSE)

\* the tokens of s: the runs of non-whitespace bytes outside comments
RefTokens(s) == split(RefStripFrom(s, 1, FALSE))

\* the pixel data of the file
Data == SliceFrom(fp, tile.offset)

\* the tokens of the pixel data
DataTokens == RefTokens(Data)

\* a token the depth accepts
GoodToken(tok, depth) ==
    /\ Len(tok) <= 10
    /\ int_ok(tok)
    /\ ~BigGT(int(tok), IF depth = 8 THEN <<0, 255>>
                        ELSE IF depth = 16 THEN <<0, 65535>>
                        ELSE <<32767, 65535>>)

\* the samples of the first k tokens, packed big-endian
RECURSIVE Samples(_, _, _)
Samples(tokens, k, width) ==
    IF k = 0 THEN <<>>
    ELSE Samples(tokens, k - 1, width) \o to_bytes(int(tokens[k]), width)

\* sample i of packed data, as a pair
SampleAt(data, i, width) ==
    LET b == SubSeq(data, (i - 1) * width + 1, i * width) IN
    IF width = 1 THEN <<0, b[1]>>
    ELSE IF width = 2 THEN <<0, b[1] * 256 + b[2]>>
    ELSE <<b[1] * 256 + b[2], b[3] * 256 + b[4]>>

Width == bytes_per_sample(plan.depth)

Fresh == [decoded_data |-> <<>>, comment_spans |-> FALSE, half_token |-> <<>>,
          block |-> <<>>, pc |-> "loop", err |-> "none"]

\* the decoder run on a file whose first read returns all the bytes left
RECURSIVE whole_run(_, _, _, _)
whole_run(st, rest, pl, total) ==
    IF ~loop_continues(st.decoded_data, total) THEN [st EXCEPT !.pc = "return"]
    ELSE LET r == loop_round(st, rest, pl, total)
             r2 == IF r.pc = "skip" THEN comment_loop(r, <<>>, pl, total) ELSE r
         IN  IF r2.pc = "loop" THEN whole_run(r2, <<>>, pl, total) ELSE r2

OneBlock == whole_run(Fresh, Data, plan, total_bytes)

Ended == pc \in {"done", "error"}

---------------------------------------------------------------------------
(* The claims. *)

\* C1: _decode_blocks decodes a valid stream to the same bytes however the
\* stream is cut into blocks: the run ends as the run on one block does.
C1_BlockInvariance ==
    (~plan.bitonal /\ Ended /\ OneBlock.pc = "return")
        => (pc = "done" /\ sink = OneBlock.decoded_data)

\* C2: _decode_bitonal decodes a valid stream to the same bytes however
\* the stream is cut into blocks, a cut inside a comment included.
C2_BitonalBlockInvariance ==
    (plan.bitonal /\ Ended /\ OneBlock.pc = "return")
        => (pc = "done" /\ sink = translate(OneBlock.decoded_data))

\* C3: when the stream holds fewer good tokens than the image needs,
\* _decode_blocks ends without an error and hands over a short buffer:
\* the samples of the tokens of the stream, each once and in order.
C3_ShortBuffer ==
    (/\ ~plan.bitonal
     /\ Ended
     /\ \A i \in 1..Len(DataTokens) : GoodToken(DataTokens[i], plan.depth)
     /\ Len(DataTokens) * Width < total_bytes)
        => (/\ pc = "done"
            /\ Len(sink) < total_bytes
            /\ sink = Samples(DataTokens, Len(DataTokens), Width))

\* C4: no sample above the max_value of the header is accepted: every
\* sample handed to the sink is at most maxval.
C4_HeaderMaxval ==
    (~plan.bitonal /\ pc = "done")
        => \A i \in 1..(Len(sink) \div Width) :
              ~BigGT(SampleAt(sink, i, Width), maxval)


\* C5: in both decoders the output never grows past total_bytes, and once
\* it holds total_bytes the only step left hands it over: nothing more is
\* read and nothing more is decoded.
C5_NeverExceeds ==
    /\ [](Len(decoded_data) <= total_bytes)
    /\ [][Len(decoded_data) = total_bytes
            => (pos' = pos /\ pc' = "done" /\ decoded_data' = decoded_data)]_vars

\* C5 happens: a decoder stopped at total_bytes with pixel data left unread
\* or undecoded
C5_Witness ==
    /\ pc = "done"
    /\ total_bytes > 0
    /\ Len(sink) = total_bytes
    /\ Len(DataTokens) * (IF plan.bitonal THEN 1 ELSE Width) > total_bytes

\* how many samples the image needs
Needed == total_bytes \div Width

TooLong == "Token too long found in data"

\* C6: in _decode_blocks, however the stream is cut: a token of exactly 10
\* bytes within range is accepted and emitted; a token of 11 or more bytes
\* met before the output is complete raises the token-too-long error; that
\* error is raised only when the stream holds a token longer than 10
\* bytes; and when it is raised the sink has received nothing.
C6_TokenLength ==
    ~plan.bitonal =>
        /\ (/\ Ended
            /\ \A i \in 1..Len(DataTokens) : GoodToken(DataTokens[i], plan.depth))
              => /\ pc = "done"
                 /\ \A i \in 1..Len(DataTokens) :
                       (i <= Needed /\ Len(DataTokens[i]) = 10)
                          => /\ Len(sink) >= i * Width
                             /\ SampleAt(sink, i, Width) = int(DataTokens[i])
        /\ (/\ Ended
            /\ \E i \in 1..Len(DataTokens) :
                  /\ i <= Needed
                  /\ Len(DataTokens[i]) >= 11
                  /\ \A j \in 1..(i - 1) : GoodToken(DataTokens[j], plan.depth))
              => err = TooLong
        /\ err = TooLong => \E i \in 1..Len(DataTokens) : Len(DataTokens[i]) > 10
        /\ err = TooLong => sink = <<>>

(* C7 is about one round of _decode_blocks: the block tokenised is block', *)
(* the stitched block the round leaves; its complete tokens are those      *)
(* ended by whitespace.                                                    *)

\* the block of the round ends in a run not ended by whitespace
Unterminated(b) == b # <<>> /\ ~last_isspace(b)

\* the tokens of the block that whitespace ends
CompleteTokens(b) ==
    IF Unterminated(b) THEN SubSeq(split(b), 1, Len(split(b)) - 1) ELSE split(b)

\* the samples still missing before the round
Missing == (total_bytes - Len(decoded_data)) \div Width

\* the round reaches total_bytes with complete tokens of block b, and more
\* of the block follows them
ReachedInside(b) ==
    /\ Missing >= 1
    /\ Len(CompleteTokens(b)) >= Missing
    /\ \A i \in 1..Missing : GoodToken(CompleteTokens(b)[i], plan.depth)
    /\ Len(split(b)) > Missing

\* a step is a round of _decode_blocks
BlocksRound == ~plan.bitonal /\ pc \in {"loop", "skip"} /\ pc' # "done" /\ pc' # "skip"
               /\ pc' # "return"

\* C7 as stated: once the complete tokens of a block reach total_bytes,
\* whatever follows in the block is discarded and the round raises nothing.
C7_RestDiscarded ==
    [][(BlocksRound /\ ReachedInside(block'))
          => (/\ pc' = "loop"
              /\ err' = "none"
              /\ decoded_data' = decoded_data
                                   \o Samples(CompleteTokens(block'), Missing, Width))]_vars

\* C7 amended: the rest of the block is discarded without an error unless
\* the block ends in an unterminated run longer than 10 bytes; that run is
\* checked before any token of the block is converted, so the round raises
\* the token-too-long error and emits nothing.  A round that reached
\* total_bytes is followed by the successful return.
C7_RestDiscardedUnlessLongTail ==
    /\ [][(BlocksRound /\ ReachedInside(block'))
            => IF Unterminated(block') /\ Len(split(block')[Len(split(block'))]) > 10
               THEN /\ pc' = "error"
                    /\ err' = TooLong
                    /\ decoded_data' = decoded_data
               ELSE /\ pc' = "loop"
                    /\ err' = "none"
                    /\ decoded_data' = decoded_data
                          \o Samples(CompleteTokens(block'), Missing, Width)]_vars
    /\ [][(~plan.bitonal /\ pc = "loop" /\ Len(decoded_data) = total_bytes)
            => (pc' = "done" /\ err' = "none" /\ sink' = decoded_data)]_vars

\* C7 happens: _decode_blocks returned a full buffer from a block that went
\* on after the last token it converted, in a run no whitespace ends
C7_Witness ==
    /\ ~plan.bitonal
    /\ pc = "done"
    /\ err = "none"
    /\ total_bytes > 0
    /\ Len(sink) = total_bytes
    /\ Unterminated(block)
    /\ Len(CompleteTokens(block)) >= 1

---------------------------------------------------------------------------
(* The header read without the tokenizer. *)

\* a decimal token without its leading zeros
RECURSIVE StripZeros(_)
StripZeros(d) == IF Len(d) > 1 /\ d[1] = 48 THEN StripZeros(Tail(d)) ELSE d

\* x > y for digit strings of one length
RECURSIVE LexGT(_, _)
LexGT(x, y) ==
    IF x = <<>> THEN FALSE
    ELSE IF x[1] # y[1] THEN x[1] > y[1]
    ELSE LexGT(Tail(x), Tail(y))

\* the number a is greater than the number b, both decimal tokens
DecGT(a, b) ==
    LET x == StripZeros(a)
        y == StripZeros(b)
    IN  Len(x) > Len(y) \/ (Len(x) = Len(y) /\ LexGT(x, y))

D255 == <<50, 53, 53>>
D65535 == <<54, 53, 53, 51, 53>>

EOFError == "Reached EOF while reading header"
HdrTooLong == "Token too long in file header"
TooManyColors == "Too many colors for band"

Bitonal == {P1, P4}
Grayscale == {P2, P5}

\* _open ended well
Opened == pc \in {"tile", "opened"}

\* the position after the comment entered at p: past its CR or LF, or the
\* end of the stream
RECURSIVE CommentEnd(_, _)
CommentEnd(f, p) ==
    IF p >= Len(f) THEN Len(f)
    ELSE IF f[p + 1] = CR \/ f[p + 1] = LF THEN p + 1
    ELSE CommentEnd(f, p + 1)

\* the index of the first token byte at or after p, whitespace and
\* comments skipped; Len(f) when there is none
RECURSIVE TokStart(_, _)
TokStart(f, p) ==
    IF p >= Len(f) THEN Len(f)
    ELSE IF f[p + 1] \in {32, 9, 10, 11, 12, 13} THEN TokStart(f, p + 1)
    ELSE IF f[p + 1] = HASH THEN TokStart(f, CommentEnd(f, p + 1))
    ELSE p

\* how many bytes from index s on are neither whitespace nor "#"
RECURSIVE TokRunLen(_, _)
TokRunLen(f, s) ==
    IF s >= Len(f) \/ f[s + 1] \in {32, 9, 10, 11, 12, 13, HASH} THEN 0
    ELSE 1 + TokRunLen(f, s + 1)

\* how many bytes from index s on are not whitespace
RECURSIVE NonWsRunLen(_, _)
NonWsRunLen(f, s) ==
    IF s >= Len(f) \/ f[s + 1] \in {32, 9, 10, 11, 12, 13} THEN 0
    ELSE 1 + NonWsRunLen(f, s + 1)

\* the header tokens of the bytes after the magic number, up to index e
HeaderTokens(e) == RefTokens(Slice(fp, Len(magic_number), e))

\* how many header tokens the magic number asks for
Required == IF mode = "1" THEN 2 ELSE 3

\* C8: the modes are a function of the magic number and the maximum value.
\* For P2 and P5 a maximum up to 255 gives L with 1-byte samples, up to
\* 65535 I;16B with 2-byte samples, above that I;32B with 4-byte samples;
\* for the other magic numbers with a maximum value a maximum above 255 is
\* the too-many-colors error and one up to 255 keeps the mode of MODES.
\* Once the three tokens are read as numbers, _open ends in one of these.
C8_ModeResolution ==
    /\ (Opened /\ magic_number \in Grayscale) =>
          /\ ~DecGT(token, D255)
               => /\ im_mode = "L" /\ rawmode = "L"
                  /\ bytes_per_sample(Plan(im_mode, rawmode).depth) = 1
          /\ (DecGT(token, D255) /\ ~DecGT(token, D65535))
               => /\ im_mode = "I" /\ rawmode = "I;16B"
                  /\ bytes_per_sample(Plan(im_mode, rawmode).depth) = 2
          /\ DecGT(token, D65535)
               => /\ im_mode = "I" /\ rawmode = "I;32B"
                  /\ bytes_per_sample(Plan(im_mode, rawmode).depth) = 4
    /\ (Opened /\ magic_number \notin Grayscale \cup Bitonal) =>
          /\ ~DecGT(token, D255)
          /\ im_mode = MODES[magic_number]
          /\ rawmode = MODES[magic_number]
    /\ err = TooManyColors =>
          /\ magic_number \in DOMAIN MODES \ (Grayscale \cup Bitonal)
          /\ DecGT(token, D255)
          /\ pc = "error"
    /\ (pc = "error" /\ ix = 2 /\ Len(HeaderTokens(pos)) = 3
        /\ \A i \in 1..3 : Len(HeaderTokens(pos)[i]) <= 10 /\ int_ok(HeaderTokens(pos)[i]))
          => err = TooManyColors

\* C8 happens: a grayscale header whose maximum value is 65536 was opened
C8_Witness ==
    /\ pc = "opened"
    /\ magic_number = P5
    /\ token = <<54, 53, 53, 51, 54>>
    /\ rawmode = "I;32B"

\* C9 as stated: _read_token returns a run of exactly 10 non-whitespace
\* bytes unchanged, and on a run of 11 or more non-whitespace bytes raises
\* the token-too-long error with exactly 11 bytes of the run read; the run
\* is the one that starts at the first token byte the call meets.
C9_TokenLimit ==
    [][pc = "token" =>
         LET s == TokStart(fp, pos)
             n == NonWsRunLen(fp, s)
         IN  /\ n = 10 => (token' = Slice(fp, s, s + 10) /\ err' \notin {HdrTooLong, EOFError})
             /\ n >= 11 => (err' = HdrTooLong /\ pos' = s + 11)]_vars

\* C9 amended: when the first token byte a call of _read_token meets starts
\* a run of bytes that are neither whitespace nor "#": a run of exactly 10
\* bytes followed by whitespace or the end of the stream is returned
\* unchanged; on a run of 11 or more bytes the token-too-long error is
\* raised with exactly 11 bytes of the run read and no token returned.
C9_TokenLimitOfTokenBytes ==
    [][pc = "token" =>
         LET s == TokStart(fp, pos)
             n == TokRunLen(fp, s)
         IN  /\ (n = 10 /\ (s + 10 = Len(fp) \/ fp[s + 11] \in {32, 9, 10, 11, 12, 13}))
                  => /\ token' = Slice(fp, s, s + 10)
                     /\ err' \notin {HdrTooLong, EOFError}
                     /\ pos' = IF s + 10 = Len(fp) THEN s + 10 ELSE s + 11
             /\ n >= 11
                  => /\ err' = HdrTooLong
                     /\ pc' = "error"
                     /\ pos' = s + 11
                     /\ token' = token]_vars

\* C9 happens: a token of 10 bytes was returned and then a longer run
\* raised the error
C9_Witness ==
    /\ pc = "error"
    /\ err = HdrTooLong
    /\ Len(token) = 10
    /\ TokRunLen(fp, pos - 11) >= 11

\* C10: a call of _read_token that meets the end of the stream before any
\* token byte, after whitespace and comments only or inside a comment left
\* open, raises the end-of-header error; a token that the end of the stream
\* cuts is returned whole.  So _open ends well only with every required
\* token read (2 for a bitonal magic number, 3 otherwise), and a header
\* whose tokens are numbers of at most 10 bytes, but fewer than required,
\* fails with the end-of-header error, raised nowhere else.
C10_EndOfHeader ==
    /\ [][(pc = "token" /\ TokStart(fp, pos) = Len(fp))
            => (pc' = "error" /\ err' = EOFError /\ pos' = Len(fp))]_vars
    /\ [][(/\ pc = "token"
           /\ TokStart(fp, pos) < Len(fp)
           /\ TokRunLen(fp, TokStart(fp, pos)) <= 10
           /\ TokStart(fp, pos) + TokRunLen(fp, TokStart(fp, pos)) = Len(fp))
            => (/\ token' = SliceFrom(fp, TokStart(fp, pos))
                /\ err' # EOFError
                /\ pos' = Len(fp))]_vars
    /\ [](Opened => Len(HeaderTokens(pos)) = Required)
    /\ [](err = EOFError => (pos = Len(fp) /\ Len(HeaderTokens(pos)) < Required))
    /\ []((/\ pc \in {"opened", "error"}
           /\ magic_number \in DOMAIN MODES
           /\ Len(HeaderTokens(Len(fp))) < Required
           /\ \A i \in 1..Len(HeaderTokens(Len(fp))) :
                 /\ Len(HeaderTokens(Len(fp))[i]) <= 10
                 /\ int_ok(HeaderTokens(Len(fp))[i]))
            => err = EOFError)

\* C10 happens: the stream ended inside a comment left open after the
\* first token, and _open failed with the end-of-header error
C10_Witness ==
    /\ pc = "error"
    /\ err = EOFError
    /\ ix = 1
    /\ Len(HeaderTokens(Len(fp))) = 1
    /\ \E i \in 1..Len(fp) : fp[i] = HASH /\ CommentEnd(fp, i) = Len(fp)
                             /\ fp[Len(fp)] \notin {CR, LF}

---------------------------------------------------------------------------
(* Where the header ends. *)

\* the position after the token that holds index p: after the first
\* whitespace byte outside comments at or after p, or the end of the stream
RECURSIVE AfterToken(_, _)
AfterToken(f, p) ==
    IF p >= Len(f) THEN Len(f)
    ELSE IF f[p + 1] \in {32, 9, 10, 11, 12, 13} THEN p + 1
    ELSE IF f[p + 1] = HASH THEN AfterToken(f, CommentEnd(f, p + 1))
    ELSE AfterToken(f, p + 1)

\* whether the token that starts at p is ended by a whitespace byte, and not
\* by the end of the stream
RECURSIVE EndedByWhitespace(_, _)
EndedByWhitespace(f, p) ==
    IF p >= Len(f) THEN FALSE
    ELSE IF f[p + 1] \in {32, 9, 10, 11, 12, 13} THEN TRUE
    ELSE IF f[p + 1] = HASH THEN EndedByWhitespace(f, CommentEnd(f, p + 1))
    ELSE EndedByWhitespace(f, p + 1)

\* the position after the k-th header token
RECURSIVE AfterHeaderToken(_)
AfterHeaderToken(k) ==
    IF k = 0 THEN Len(magic_number)
    ELSE AfterToken(fp, TokStart(fp, AfterHeaderToken(k - 1)))

\* C11: _open reads the tokens in the order width, height, max_value.  For
\* P1 and P4 it reads two tokens and never a third: the offset of the pixel
\* data is the position right after the one whitespace byte that ends the
\* height token (the end of the stream when the stream ends the token).
\* For every other magic number it reads three tokens and the offset is
\* right after the one whitespace byte that ends the max_value token.
C11_HeaderTokensAndOffset ==
    /\ [](Opened =>
            LET n == Required
                toks == HeaderTokens(AfterHeaderToken(n))
            IN  /\ Len(toks) = n
                /\ xsize = int(toks[1])
                /\ ysize = int(toks[2])
                /\ n = 3 => maxval = int(toks[3])
                /\ n = 2 => maxval = Big(0)
                /\ pos = AfterHeaderToken(n)
                /\ pc = "opened" => tile.offset = AfterHeaderToken(n)
                /\ IF EndedByWhitespace(fp, TokStart(fp, AfterHeaderToken(n - 1)))
                   THEN /\ fp[pos] \in {32, 9, 10, 11, 12, 13}
                        /\ \/ fp[pos - 1] \notin {32, 9, 10, 11, 12, 13}
                           \/ \E c \in 1..(pos - 1) :
                                 fp[c] = HASH /\ CommentEnd(fp, c) = pos - 1
                   ELSE pos = Len(fp))
    /\ [][(pc = "token" /\ mode = "1" /\ ix = 1) => pc' \in {"tile", "error"}]_vars
    /\ [][(pc = "token" /\ mode # "1" /\ ix = 1) => pc' \in {"token", "error"}]_vars
    /\ [][(pc = "token" /\ ix = 2) => pc' \in {"tile", "error"}]_vars
    /\ [][pc = "tile" => (pc' = "opened" /\ pos' = pos)]_vars

\* C11 happens: a bitonal header was opened with a digit of the pixel data
\* right at the offset, after the whitespace byte that ended the height
C11_Witness ==
    /\ pc = "opened"
    /\ mode = "1"
    /\ tile.offset < Len(fp)
    /\ fp[tile.offset] \in {32, 9, 10, 11, 12, 13}
    /\ fp[tile.offset + 1] \in 48..57

---------------------------------------------------------------------------
(* A file opened and decoded, its pixel data read as one block. *)

\* ImageFile.load: the file is positioned at the offset of the tile and
\* the plain decoder starts with its locals fresh
Load ==
    /\ pc = "opened"
    /\ tile.decoder_name = "ppm_plain"
    /\ pos' = tile.offset
    /\ pc' = "loop"
    /\ decoded_data' = <<>>
    /\ comment_spans' = FALSE
    /\ half_token' = <<>>
    /\ block' = <<>>
    /\ UNCHANGED <<fp, err, sink>>
    /\ UNCHANGED hdrVars

\* a round of the while loop of a decoder whose read returns all the bytes
\* left in the file
ReadWhole ==
    /\ pc = "loop"
    /\ loop_continues(decoded_data, total_bytes)
    /\ pos' = Len(fp)
    /\ Store(loop_round(locals, SliceFrom(fp, pos), plan, total_bytes))
    /\ UNCHANGED <<fp, sink>>
    /\ UNCHANGED hdrVars

\* _open as a function of the file: how it ends and what it leaves
open_run(f) ==
    LET m == _read_magic(f, 0)
        none == [pc |-> "error", err |-> "not a PPM file", xsize |-> Big(0),
                 ysize |-> Big(0), maxval |-> Big(0), im_mode |-> "",
                 rawmode |-> "", offset |-> 0, decoder_name |-> ""]
    IN
    IF m.magic \notin DOMAIN MODES THEN none
    ELSE
    LET md == MODES[m.magic]
        t1 == _read_token(f, m.pos)
    IN
    IF t1.err # "none" THEN [none EXCEPT !.err = t1.err]
    ELSE IF ~int_ok(t1.token) THEN [none EXCEPT !.err = "invalid literal for int()"]
    ELSE
    LET x == [none EXCEPT !.xsize = int(t1.token)]
        t2 == _read_token(f, t1.pos)
    IN
    IF t2.err # "none" THEN [x EXCEPT !.err = t2.err]
    ELSE IF ~int_ok(t2.token) THEN [x EXCEPT !.err = "invalid literal for int()"]
    ELSE
    LET y == [x EXCEPT !.ysize = int(t2.token), !.im_mode = md,
                       !.rawmode = IF md = "1" THEN "1;I" ELSE md]
        name == IF m.magic \in {P1, P2, P3} THEN "ppm_plain" ELSE "raw"
    IN
    IF md = "1"
    THEN [y EXCEPT !.pc = "opened", !.err = "none", !.offset = t2.pos,
                   !.decoder_name = name]
    ELSE
    LET t3 == _read_token(f, t2.pos) IN
    IF t3.err # "none" THEN [y EXCEPT !.err = t3.err]
    ELSE IF ~int_ok(t3.token) THEN [y EXCEPT !.err = "invalid literal for int()"]
    ELSE
    LET r == resolve_maxval(md, int(t3.token))
        z == [y EXCEPT !.maxval = int(t3.token)]
    IN
    IF r.err # "none" THEN [z EXCEPT !.err = r.err]
    ELSE [z EXCEPT !.pc = "opened", !.err = "none", !.im_mode = r.mode,
                   !.rawmode = r.rawmode, !.offset = t3.pos, !.decoder_name = name]

\* a file opened and, when its pixel data is plain text, decoded from one
\* block: how it ends, the header values and what set_as_raw received
file_run(f) ==
    LET o == open_run(f) IN
    IF o.pc = "error" \/ o.decoder_name # "ppm_plain"
    THEN [pc |-> o.pc, err |-> o.err, xsize |-> o.xsize, ysize |-> o.ysize,
          maxval |-> o.maxval, sink |-> <<>>]
    ELSE LET pl == Plan(o.im_mode, o.rawmode)
             d == whole_run(Fresh, SliceFrom(f, o.offset), pl,
                            total_bytes_of(pl, o.xsize, o.ysize))
         IN  [pc |-> IF d.pc = "error" THEN "error" ELSE "done",
              err |-> d.err, xsize |-> o.xsize, ysize |-> o.ysize,
              maxval |-> o.maxval,
              sink |-> IF d.pc = "error" THEN <<>> ELSE returned(d.decoded_data, pl)]

\* longest pixel data of the files with comments
MaxTextLen == 3

\* the bytes of that pixel data
TextAlphabet == {49, SP, LF, HASH}

\* the comments inserted: "#", a body, LF
Comments == {<<HASH, LF>>, <<HASH, 49, LF>>}

\* s with the bytes c put in after its first k bytes
Insert(s, k, c) == Slice(s, 0, k) \o c \o SliceFrom(s, k)

\* the files with comments: a header and pixel data, and a comment put in
\* anywhere
CommentedFiles ==
    LET plain == {BytesOf(h) \o d :
                    h \in {Header(P1, 2, 1, 0), Header(P2, 2, 1, 255),
                           Header(P3, 1, 1, 255), Header(P5, 1, 1, 255)},
                    d \in SeqsUpTo(TextAlphabet, MaxTextLen)}
    IN  plain \cup {Insert(f, k, c) : f \in plain, k \in 0..(Len(BytesOf(Header(P2, 2, 1, 255))) + MaxTextLen),
                                      c \in Comments}

InitFile ==
    /\ fp \in CommentedFiles
    /\ pos = 0
    /\ pc = "magic"
    /\ err = "none"
    /\ magic_number = <<>>
    /\ mode = ""
    /\ im_mode = ""
    /\ rawmode = ""
    /\ ix = 0
    /\ token = <<>>
    /\ xsize = Big(0)
    /\ ysize = Big(0)
    /\ maxval = Big(0)
    /\ tile = NoTile
    /\ decoded_data = <<>>
    /\ comment_spans = FALSE
    /\ half_token = <<>>
    /\ block = <<>>
    /\ sink = <<>>

NextOneBlock ==
    ReadMagic \/ ReadToken \/ MakeTile \/ Load \/ ReadWhole \/ SkipBlock \/ SetAsRaw

SpecOneBlock == InitFile /\ [][NextOneBlock]_vars

\* a run of the file ended: decoded, failed, or opened with raw pixel data
Finished ==
    \/ pc \in {"done", "error"}
    \/ pc = "opened" /\ tile.decoder_name # "ppm_plain"

\* a comment is open after the first k bytes of f
RECURSIVE CommentOpen(_, _)
CommentOpen(f, k) ==
    IF k = 0 THEN FALSE
    ELSE IF CommentOpen(f, k - 1) THEN f[k] \notin {CR, LF}
    ELSE f[k] = HASH

\* byte i of the file starts a comment ended by LF that stands after the
\* delimiter of the magic number, outside other comments and next to a
\* whitespace byte, in the header or in plain-text pixel data
InsertedComment(i) ==
    /\ magic_number \in DOMAIN MODES
    /\ Len(fp) > Len(magic_number)
    /\ fp[Len(magic_number) + 1] \in {32, 9, 10, 11, 12, 13}
    /\ i >= Len(magic_number) + 2
    /\ fp[i] = HASH
    /\ ~CommentOpen(fp, i - 1)
    /\ fp[CommentEnd(fp, i)] = LF
    /\ \/ fp[i - 1] \in {32, 9, 10, 11, 12, 13}
       \/ /\ CommentEnd(fp, i) < Len(fp)
          /\ fp[CommentEnd(fp, i) + 1] \in {32, 9, 10, 11, 12, 13}
    /\ \/ magic_number \in {P1, P2, P3}
       \/ pc = "opened" /\ i <= tile.offset

\* the file without the comment that starts at byte i
WithoutComment(i) == Slice(fp, 0, i - 1) \o SliceFrom(fp, CommentEnd(fp, i))

\* C12: a comment ("#", a body without CR or LF, LF) that stands between
\* tokens next to a whitespace byte, in the header after the delimiter of
\* the magic number or in plain-text pixel data read as one block, changes
\* nothing: the file without it gives the same width, height, max_value,
\* decoded bytes and error.
C12_CommentInvariance ==
    Finished =>
        \A i \in 1..Len(fp) :
            InsertedComment(i) =>
                LET o == file_run(WithoutComment(i)) IN
                /\ o.xsize = xsize
                /\ o.ysize = ysize
                /\ o.maxval = maxval
                /\ o.sink = sink
                /\ o.err = err

\* C12 happens: a file with such a comment in its header and another in its
\* pixel data was decoded to pixels
C12_Witness ==
    /\ pc = "done"
    /\ sink # <<>>
    /\ \E i \in 1..Len(fp) : InsertedComment(i) /\ i <= tile.offset
    /\ \E i \in 1..Len(fp) : InsertedComment(i) /\ i > tile.offset

---------------------------------------------------------------------------
(* The bitonal samples. *)

\* the bytes of the pixel data that are neither whitespace nor in a comment
SampleBytes == join(RefTokens(Data))

\* C13: in _decode_bitonal every byte of the pixel data that is neither
\* whitespace nor in a comment is one sample, with or without whitespace
\* between the digits: "0" gives FF and "1" gives 00, in the order of the
\* stream, cut to width * height samples; another byte among the samples
\* the image needs raises the invalid-token error.
C13_BitonalSamples ==
    (plan.bitonal /\ Ended) =>
        /\ (\A i \in 1..Len(SampleBytes) : SampleBytes[i] \in {48, 49})
             => /\ pc = "done"
                /\ Len(sink) = Min(Len(SampleBytes), total_bytes)
                /\ \A i \in 1..Len(sink) :
                      sink[i] = IF SampleBytes[i] = 48 THEN 255 ELSE 0
        /\ (\E i \in 1..Min(Len(SampleBytes), total_bytes) :
                SampleBytes[i] \notin {48, 49})
             => (pc = "error" /\ err = "Invalid token for this mode")

---------------------------------------------------------------------------
(* _save: the writer, and the file it writes opened again. *)

\* b"P4", b"P5", b"P6" are the heads _save writes
\* the rawmode and the head for the mode of the image and the greatest
\* pixel value getextrema() reports; head <<>> is the OSError
save_plan(md, extrema) ==
    IF md = "1" THEN [rawmode |-> "1;I", head |-> P4]
    ELSE IF md = "L" THEN [rawmode |-> "L", head |-> P5]
    ELSE IF md = "I"
         THEN IF BigLT(extrema, Big(2 ^ 16))
              THEN [rawmode |-> "I;16B", head |-> P5]
              ELSE [rawmode |-> "I;32B", head |-> P5]
    ELSE IF md = "RGB" THEN [rawmode |-> "RGB", head |-> P6]
    ELSE IF md = "RGBA" THEN [rawmode |-> "RGB", head |-> P6]
    ELSE [rawmode |-> "", head |-> <<>>]

\* the header bytes _save writes for a head, a rawmode and a size
save_header(sp, w, h) ==
    sp.head \o <<LF>> \o ToDec(w) \o <<SP>> \o ToDec(h) \o <<LF>>
    \o (IF sp.head = P6 THEN <<50, 53, 53, LF>> ELSE <<>>)
    \o (IF sp.head = P5
        THEN IF sp.rawmode = "L" THEN <<50, 53, 53, LF>>
             ELSE IF sp.rawmode = "I;16B" THEN <<54, 53, 53, 51, 53, LF>>
             ELSE IF sp.rawmode = "I;32B"
                  THEN <<50, 49, 52, 55, 52, 56, 51, 54, 52, 56, LF>>
             ELSE <<>>
        ELSE <<>>)

\* _save that writes the head before it looks at the mode
_save_headfirst(md, w, h, extrema, pixels) ==
    LET sp == save_plan(md, extrema) IN
    IF sp.head = <<>>
    THEN [err |-> "cannot write mode", written |-> P6]
    ELSE [err |-> "none", written |-> save_header(sp, w, h) \o pixels]

\* _save that writes 65536 as the maximum value of I;16B
_save_wide16(md, w, h, extrema, pixels) ==
    LET sp == save_plan(md, extrema) IN
    IF sp.head = <<>>
    THEN [err |-> "cannot write mode", written |-> <<>>]
    ELSE IF sp.rawmode = "I;16B"
    THEN [err |-> "none",
          written |-> sp.head \o <<LF>> \o ToDec(w) \o <<SP>> \o ToDec(h)
                      \o <<LF, 54, 53, 53, 51, 54, LF>> \o pixels]
    ELSE [err |-> "none", written |-> save_header(sp, w, h) \o pixels]

\* _save: the error, and the bytes written to fp; pixels are the bytes the
\* raw encoder writes through ImageFile._save
_save(md, w, h, extrema, pixels) ==
    LET sp == save_plan(md, extrema) IN
    IF sp.head = <<>>
    THEN [err |-> "cannot write mode", written |-> <<>>]
    ELSE [err |-> "none", written |-> save_header(sp, w, h) \o pixels]

\* the modes of the images saved: those _save writes, and others
WriterModes == {"1", "L", "I", "RGB", "RGBA"}
OtherModes == {"P", "CMYK", "F"}

\* the widths and heights of the images saved
SaveSizes == {0, 1, 10, 65536, 2147483647}

\* the greatest pixel values of the images saved
SaveExtrema == {Big(0), Big(65535), Big(65536), <<32767, 65535>>}

\* the pixel bytes of the raw encoder
SavePixels == {<<>>, <<0>>, <<49, SP, 255>>}

\* an image to save: its mode in im_mode, its size in xsize and ysize, its
\* greatest pixel value in maxval; fp is the empty file it is saved to
InitSave ==
    /\ fp = <<>>
    /\ pos = 0
    /\ pc = "save"
    /\ err = "none"
    /\ magic_number = <<>>
    /\ mode = ""
    /\ im_mode \in WriterModes \cup OtherModes
    /\ rawmode = ""
    /\ ix = 0
    /\ token = <<>>
    /\ xsize \in {Big(n) : n \in SaveSizes}
    /\ ysize \in {Big(n) : n \in SaveSizes}
    /\ maxval \in SaveExtrema
    /\ tile = NoTile
    /\ decoded_data = <<>>
    /\ comment_spans = FALSE
    /\ half_token = <<>>
    /\ block = <<>>
    /\ sink = <<>>

\* _save; the file written is then opened as a new image, from its start
Save ==
    /\ pc = "save"
    /\ \E pixels \in SavePixels :
          LET r == _save(im_mode, Small(xsize), Small(ysize), maxval, pixels) IN
          /\ fp' = fp \o r.written
          /\ err' = r.err
          /\ pc' = IF r.err = "none" THEN "magic" ELSE "error"
    /\ pos' = 0
    /\ im_mode' = ""
    /\ xsize' = Big(0)
    /\ ysize' = Big(0)
    /\ maxval' = Big(0)
    /\ UNCHANGED <<magic_number, mode, rawmode, ix, token, tile>>
    /\ UNCHANGED decVars

NextSave == Save \/ ReadMagic \/ ReadToken \/ MakeTile

SpecSave == InitSave /\ [][NextSave]_vars

\* the rawmode _save hands to the raw encoder
WriterRawmode(md, extrema) ==
    CASE md = "1" -> "1;I"
      [] md = "L" -> "L"
      [] md = "I" /\ ~BigGT(extrema, <<0, 65535>>) -> "I;16B"
      [] md = "I" /\ BigGT(extrema, <<0, 65535>>) -> "I;32B"
      [] md \in {"RGB", "RGBA"} -> "RGB"

\* C14: for every mode _save writes and every width and height, the magic
\* reader, the tokenizer and the mode resolver run on the file written
\* succeed, give the width and the height of the image and the rawmode
\* _save handed to the raw encoder (RGB for RGBA), and the offset of the
\* pixel data is the length of the header.
C14_HeaderRoundTrip ==
    /\ pc = "error" => err = "cannot write mode"
    /\ pc \notin {"save", "error"} =>
         \E md \in WriterModes, w \in SaveSizes, h \in SaveSizes,
            e \in SaveExtrema, px \in SavePixels :
              fp = save_header(save_plan(md, e), w, h) \o px
    /\ \A md \in WriterModes, w \in SaveSizes, h \in SaveSizes,
          e \in SaveExtrema, px \in SavePixels :
              LET hdr == save_header(save_plan(md, e), w, h) IN
              (fp = hdr \o px /\ pc = "opened") =>
                    /\ xsize = Big(w)
                    /\ ysize = Big(h)
                    /\ rawmode = WriterRawmode(md, e)
                    /\ tile.rawmode = WriterRawmode(md, e)
                    /\ tile.extents = <<0, 0, Big(w), Big(h)>>
                    /\ tile.offset = Len(hdr)
                    /\ tile.decoder_name = "raw"

\* C14 happens: an I image with a pixel value above 65535 and the widest
\* size was saved and opened again
C14_Witness ==
    /\ pc = "opened"
    /\ rawmode = "I;32B"
    /\ xsize = <<32767, 65535>>
    /\ Len(fp) > tile.offset

\* C15: _save of an image whose mode is not 1, L, I, RGB or RGBA fails with
\* the cannot-write-mode error and writes nothing: no header byte and no
\* pixel byte is in the file when the error is raised.
C15_CannotWriteMode ==
    /\ [][(pc = "save" /\ im_mode \notin {"1", "L", "I", "RGB", "RGBA"})
            => (pc' = "error" /\ err' = "cannot write mode" /\ fp' = fp)]_vars
    /\ [][(pc = "save" /\ im_mode \in {"1", "L", "I", "RGB", "RGBA"})
            => (pc' # "error" /\ err' = "none" /\ fp' # fp)]_vars
    /\ [](err = "cannot write mode" => fp = <<>>)

\* C15 happens: the save of a CMYK image failed
C15_Witness ==
    /\ pc = "error"
    /\ err = "cannot write mode"
    /\ magic_number = <<>>
    /\ fp = <<>>

---------------------------------------------------------------------------
(* The fragment carried between blocks. *)

\* C16: in _decode_blocks the fragment held at the end of a block is
\* prepended to the next block only: after a round that stitched it, the
\* fragment carried is empty, unless the stitched block itself ends in a
\* token that no whitespace ends, which is then the fragment carried.
C16_FragmentStitchedOnce ==
    [][(BlocksRound /\ half_token # <<>> /\ pc' = "loop")
          => IF Unterminated(block')
             THEN half_token' = split(block')[Len(split(block'))]
             ELSE half_token' = <<>>]_vars

---------------------------------------------------------------------------
(* The end of a comment. *)

\* the lowest index i >= start with CR or LF at blk[i], -1 without one
RECURSIVE LowestLineEnd(_, _)
LowestLineEnd(blk, start) ==
    IF start >= Len(blk) THEN -1
    ELSE IF blk[start + 1] \in {CR, LF} THEN start
    ELSE LowestLineEnd(blk, start + 1)

\* C17: for every block a decoder can read next and every start,
\* _find_comment_end(block, start) is the lowest index i >= start at which
\* the block holds CR or LF, and -1 when there is none, also when one of
\* the two bytes is at index 0 and the other comes later.
C17_FindCommentEnd ==
    pc \in {"loop", "skip"} =>
        \A n \in ReadSizes :
            \A start \in 0..n :
                _find_comment_end(Slice(fp, pos, pos + n), start)
                    = LowestLineEnd(Slice(fp, pos, pos + n), start)

---------------------------------------------------------------------------
(* The length of the fragment carried. *)

\* C18: after every block _decode_blocks processed without an error the
\* fragment carried is at most 10 bytes long; a round whose stitched block
\* ends in a run of more than 10 bytes that no whitespace ends raises the
\* token-too-long error, and a shorter run is carried whole.
C18_FragmentLength ==
    /\ []((~plan.bitonal /\ pc # "error") => Len(half_token) <= 10)
    /\ [][(BlocksRound /\ Unterminated(block'))
            => IF Len(split(block')[Len(split(block'))]) > 10
               THEN pc' = "error" /\ err' = TooLong
               ELSE pc' = "loop" => half_token' = split(block')[Len(split(block'))]]_vars

\* C18 happens: a fragment of 10 bytes is carried to the next block
C18_Witness ==
    /\ ~plan.bitonal
    /\ pc = "loop"
    /\ Len(half_token) = 10
    /\ Unterminated(block)
    /\ pos < Len(fp)

---------------------------------------------------------------------------
(* Termination: a file opened and decoded, its blocks cut anywhere. *)

\* longest header body of the files below
MaxLiveHdr == 3
\* longest pixel data of the files below
MaxLiveLen == 2

\* the files: headers that end anywhere, and images whose pixel data ends
\* anywhere, inside a token or a comment too
AllFiles ==
    {m \o <<LF>> \o b : m \in {P1, P2}, b \in SeqsUpTo(HdrAlphabet, MaxLiveHdr)}
    \cup {BytesOf(h) \o d :
             h \in {Header(P2, 2, 1, 255), Header(P3, 1, 1, 255)},
             d \in SeqsUpTo({49, SP, LF, HASH}, MaxLiveLen)}
    \cup {BytesOf(Header(P1, 2, 1, 0)) \o d :
             d \in SeqsUpTo({48, 50, LF, HASH}, MaxLiveLen)}

\* no file yet
InitStart ==
    /\ fp = <<>>
    /\ pos = 0
    /\ pc = "start"
    /\ err = "none"
    /\ magic_number = <<>>
    /\ mode = ""
    /\ im_mode = ""
    /\ rawmode = ""
    /\ ix = 0
    /\ token = <<>>
    /\ xsize = Big(0)
    /\ ysize = Big(0)
    /\ maxval = Big(0)
    /\ tile = NoTile
    /\ decoded_data = <<>>
    /\ comment_spans = FALSE
    /\ half_token = <<>>
    /\ block = <<>>
    /\ sink = <<>>

\* the file the image is opened from
TakeFile ==
    /\ pc = "start"
    /\ fp' \in AllFiles
    /\ pc' = "magic"
    /\ UNCHANGED <<pos, err>>
    /\ UNCHANGED hdrVars
    /\ UNCHANGED decVars

NextFile ==
    \/ TakeFile
    \/ ReadMagic \/ ReadToken \/ MakeTile \/ Load \/ ReadBlock \/ SkipBlock \/ SetAsRaw

\* every call made returns or raises in the end: the program goes on while
\* it can
SpecLive == InitStart /\ [][NextFile]_vars /\ WF_vars(NextFile)

\* C19: for every stream and every cut into blocks the header tokenizer and
\* both plain-text decoders terminate: the run ends, returned or raised,
\* without reading past the end of the stream.
C19_Terminates ==
    /\ <>Finished
    /\ [](pos <= Len(fp))

\* C19 happens: _decode_blocks returned from a stream that ended inside a
\* comment with a fragment of a token held
C19_Witness ==
    /\ pc = "done"
    /\ ~plan.bitonal
    /\ half_token # <<>>
    /\ CommentOpen(fp, Len(fp))
    /\ pos = Len(fp)

===========================================================================
